---- MODULE Spec2Model ----
(***************************************************************************)
(* Model of generate-and-rank.py: IdeaPicker.rank, the tournament ranking  *)
(* of story ideas, with IdeaPicker._pick_one (the parse of the judge's     *)
(* CHOICE(n) answer) and IdeaPicker._pick_one_with_retry.                  *)
(*                                                                         *)
(* A Python dict is modelled as the sequence of its <<key, value>> items   *)
(* in insertion order.  A judge response is modelled as a sequence of      *)
(* tokens: a token is either text that the pattern CHOICE\((\d+)\) does    *)
(* not match, or one match of it with its string of decimal digits.        *)
(***************************************************************************)
EXTENDS Integers, Sequences, FiniteSets

VARIABLES
    input,                 \* the list passed to rank, as it was at the call
    max_compare_together,  \* rank's parameter
    ideas,                 \* rank's local: the active sequence
    scores,                \* rank's local: dict idea -> wins
    round_number,          \* rank's local
    winners,               \* rank's local: winners of the round in progress
    i,                     \* the for loop's index into ideas
    attempt,               \* attempts _pick_one_with_retry has used on the group
    pc,                    \* "while" | "for" | "done" | "pick_in" | "pick_out"
    outcomes,              \* generate-and-rank.log of the round: <<group, best>>
    snapshots,             \* lines appended to scores.log by this call
    calls,                 \* number of judge requests made by this call
    failed,                \* number of groups logged "could not pick a winner"
    ranked,                \* rank's return value
    pick_ideas,            \* _pick_one's argument
    txt,                   \* the judge's response given to _pick_one
    choice                 \* _pick_one's return value

vars == <<input, max_compare_together, ideas, scores, round_number, winners, i,
          attempt, pc, outcomes, snapshots, calls, failed, ranked, pick_ideas, txt,
          choice>>

rankVars == <<input, max_compare_together, ideas, scores, round_number, winners,
              i, attempt, outcomes, snapshots, calls, failed, ranked>>

pickVars == <<pick_ideas, txt, choice>>

(* ------------------------------ bounds --------------------------------- *)

\* longest list passed to rank (besides TenIdeas)
MaxIdeas == 3

\* rounds after which a run is cut off; terminating runs stay below it
MaxRounds == 5

\* largest number written in a CHOICE(n) marker of a modelled response
MaxChoice == 10

\* most tokens in a response given to _pick_one alone
MaxTokens == 2

(* --------------------------- program constants ------------------------- *)

\* rank(self, ideas, max_compare_together=4)
DefaultMaxCompare == 4

\* _pick_one_with_retry(self, ideas, max_retries=5)
max_retries == 5

(* ------------------------------ values --------------------------------- *)

\* Python's None; no idea string equals it
None == "None"

\* idea strings
Cands == {"a", "b", "c"}

Min(x, y) == IF x <= y THEN x ELSE y

SeqsUpTo(S, n) == UNION {[1..k -> S] : k \in 0..n}

Range(s) == {s[j] : j \in DOMAIN s}

Count(s, c) == Cardinality({j \in DOMAIN s : s[j] = c})

\* ten ideas, for a round of three groups under the default group size
TenIdeas == [j \in 1..10 |-> "a"]

\* the lists rank is called with
Inputs == SeqsUpTo(Cands, MaxIdeas) \cup {TenIdeas}

\* the values of max_compare_together rank is called with
GroupSizes == 1..DefaultMaxCompare

(* ------------------------------ dicts ---------------------------------- *)

Keys(d) == {d[j][1] : j \in DOMAIN d}

HasKey(d, k) == \E j \in DOMAIN d : d[j][1] = k

Get(d, k) == d[CHOOSE j \in DOMAIN d : d[j][1] = k][2]

\* d[k] = v: an existing key keeps its position, a new key goes last
SetItem(d, k, v) ==
    IF HasKey(d, k)
    THEN [j \in DOMAIN d |-> IF d[j][1] = k THEN <<k, v>> ELSE d[j]]
    ELSE Append(d, <<k, v>>)

RECURSIVE DictZero(_)
DictZero(s) ==
    IF s = <<>> THEN <<>>
    ELSE SetItem(DictZero(SubSeq(s, 1, Len(s) - 1)), s[Len(s)], 0)

\* variant: scores = {}
InitScoresEmpty(s) == <<>>

\* variant: scores = {idea: 0 for idea in ideas[1:]}
InitScoresSkipFirst(s) == DictZero(SubSeq(s, 2, Len(s)))

\* scores = {idea: 0 for idea in ideas}
InitScores(s) == DictZero(s)

\* sum of the values of a dict
RECURSIVE Total(_)
Total(d) == IF d = <<>> THEN 0 ELSE Head(d)[2] + Total(Tail(d))

(* --------------------- sorted(..., reverse=True) ----------------------- *)

\* variant: x goes before the items of equal score
RECURSIVE InsertDescFront(_, _)
InsertDescFront(s, x) ==
    IF s = <<>> THEN <<x>>
    ELSE IF Head(s)[2] > x[2] THEN <<Head(s)>> \o InsertDescFront(Tail(s), x)
    ELSE <<x>> \o s

\* x goes behind every item whose score is not smaller: the sort is stable
RECURSIVE InsertDesc(_, _)
InsertDesc(s, x) ==
    IF s = <<>> THEN <<x>>
    ELSE IF Head(s)[2] >= x[2] THEN <<Head(s)>> \o InsertDesc(Tail(s), x)
    ELSE <<x>> \o s

RECURSIVE SortDesc(_)
SortDesc(items) ==
    IF items = <<>> THEN <<>>
    ELSE InsertDesc(SortDesc(SubSeq(items, 1, Len(items) - 1)), items[Len(items)])

\* variant: only the ideas that ever won (scores kept in a defaultdict)
SortedWinnersOnly(d) == SortDesc(SelectSeq(d, LAMBDA x : x[2] > 0))

\* sorted(scores.items(), key=lambda x: x[1], reverse=True)
SortedItems(d) == SortDesc(d)

(* --------------------------- random.shuffle ---------------------------- *)

\* every arrangement of the same elements
Shuffles(s) ==
    {t \in [DOMAIN s -> Range(s)] : \A c \in Range(s) : Count(t, c) = Count(s, c)}

(* ------------------------------ _pick_one ------------------------------ *)

Text == [marker |-> FALSE, digits |-> <<>>]

Marker(ds) == [marker |-> TRUE, digits |-> ds]

\* the decimal digits of n
RECURSIVE Dec(_)
Dec(n) == IF n < 10 THEN <<n>> ELSE Dec(n \div 10) \o <<n % 10>>

\* markers of the modelled responses: each number plain and with a leading zero
Tokens ==
    {Text} \cup {Marker(Dec(n)) : n \in 0..MaxChoice}
           \cup {Marker(<<0>> \o Dec(n)) : n \in 0..MaxChoice}

\* int(choice_group)
RECURSIVE int(_)
int(ds) ==
    IF ds = <<>> THEN 0
    ELSE 10 * int(SubSeq(ds, 1, Len(ds) - 1)) + ds[Len(ds)]

NoMatch == [found |-> FALSE, group1 |-> <<>>]

\* variant: the rightmost match
RECURSIVE re_search_last(_)
re_search_last(t) ==
    IF t = <<>> THEN NoMatch
    ELSE IF t[Len(t)].marker THEN [found |-> TRUE, group1 |-> t[Len(t)].digits]
    ELSE re_search_last(SubSeq(t, 1, Len(t) - 1))

\* re.search(r'CHOICE\((\d+)\)', txt): the leftmost match
RECURSIVE re_search(_)
re_search(t) ==
    IF t = <<>> THEN NoMatch
    ELSE IF Head(t).marker THEN [found |-> TRUE, group1 |-> Head(t).digits]
    ELSE re_search(Tail(t))

\* choice_int < 0 or choice_int >= len(ideas)
OutOfBounds(choice_int, n) == choice_int < 0 \/ choice_int >= n

\* IdeaPicker._pick_one on the judge's response t
pick_one(s, t) ==
    LET m == re_search(t) IN
    IF ~m.found THEN None
    ELSE LET choice_int == int(m.group1) - 1 IN
         IF OutOfBounds(choice_int, Len(s)) THEN None
         ELSE s[choice_int + 1]

(* -------------------------------- rank --------------------------------- *)

\* variant: one element too many
SliceWide(s, lo, hi) == SubSeq(s, lo + 1, Min(hi + 1, Len(s)))

\* s[lo:hi]
Slice(s, lo, hi) == SubSeq(s, lo + 1, Min(hi, Len(s)))

\* ideas[i:i+max_compare_together]
ideas_subset == Slice(ideas, i, i + max_compare_together)

\* responses of the judge during rank
Responses == SeqsUpTo(Tokens, 1)

\* groups given to _pick_one alone
PickGroups == UNION {[1..k -> Cands] : k \in 2..DefaultMaxCompare}

\* The model counts rounds, wins, log lines and judge requests up to the
\* cut-off at MaxRounds.  No condition of rank reads these numbers, so past the
\* cut-off (FairSpec only) the call goes on exactly as the code does and the
\* numbers stand still.
Counting == round_number <= MaxRounds

\* x += 1
Incr(x) == IF Counting THEN x + 1 ELSE x

\* variant: the winner is scored and not carried on
ScoreWinnerNoAppend(best) ==
    IF HasKey(scores, best)
    THEN /\ scores' = SetItem(scores, best, Incr(Get(scores, best)))
         /\ UNCHANGED winners
    ELSE UNCHANGED <<scores, winners>>

\* scores[best] += 1, KeyError when best is no key
ScoreWinner(best) ==
    IF HasKey(scores, best)
    THEN /\ scores' = SetItem(scores, best, Incr(Get(scores, best)))
         /\ winners' = Append(winners, best)
    ELSE UNCHANGED <<scores, winners>>

\* variant: the for loop steps by one idea, not by one group
AdvanceStepOne(best) ==
    /\ IF best = None
       THEN UNCHANGED <<scores, winners>>
       ELSE ScoreWinner(best)
    /\ failed' = IF best = None THEN Incr(failed) ELSE failed
    /\ outcomes' = Append(outcomes, <<ideas_subset, best>>)
    /\ i' = i + 1
    /\ attempt' = 0

\* the rest of the for body once best is known, and the step to the next group
Advance(best) ==
    /\ IF best = None
       THEN UNCHANGED <<scores, winners>>
       ELSE ScoreWinner(best)
    /\ failed' = IF best = None THEN Incr(failed) ELSE failed
    /\ outcomes' = Append(outcomes, <<ideas_subset, best>>)
    /\ i' = i + max_compare_together
    /\ attempt' = 0

\* the while condition holds: the round begins
EnterRound ==
    /\ pc = "while"
    /\ Len(ideas) > 1
    /\ ideas' \in Shuffles(ideas)
    /\ winners' = <<>>
    /\ i' = 0
    /\ outcomes' = <<>>
    /\ pc' = "for"
    /\ UNCHANGED <<input, max_compare_together, scores, round_number, attempt,
                   snapshots, calls, failed, ranked>>
    /\ UNCHANGED pickVars

\* variant: while len(ideas) >= 1
WhileEnterAtOne ==
    /\ pc = "while"
    /\ Len(ideas) >= 1
    /\ round_number <= MaxRounds
    /\ ideas' \in Shuffles(ideas)
    /\ winners' = <<>>
    /\ i' = 0
    /\ outcomes' = <<>>
    /\ pc' = "for"
    /\ UNCHANGED <<input, max_compare_together, scores, round_number, attempt,
                   snapshots, calls, failed, ranked>>
    /\ UNCHANGED pickVars

\* while len(ideas) > 1: winners = []; random.shuffle(ideas)
WhileEnter ==
    /\ Counting
    /\ EnterRound

\* the same step past the cut-off
WhileEnterUncounted ==
    /\ ~Counting
    /\ EnterRound

\* variant: the member of a group of one advances without a point
AutoAdvanceNoScore ==
    /\ pc = "for"
    /\ i < Len(ideas)
    /\ Len(ideas_subset) = 1
    /\ winners' = Append(winners, ideas_subset[1])
    /\ outcomes' = Append(outcomes, <<ideas_subset, ideas_subset[1]>>)
    /\ i' = i + max_compare_together
    /\ attempt' = 0
    /\ UNCHANGED <<input, max_compare_together, ideas, scores, round_number, pc,
                   snapshots, calls, failed, ranked>>
    /\ UNCHANGED pickVars

\* variant: a group of one is put to the judge like any other
AutoAdvanceAsksJudge ==
    /\ pc = "for"
    /\ i < Len(ideas)
    /\ Len(ideas_subset) = 1
    /\ Advance(ideas_subset[1])
    /\ calls' = Incr(calls)
    /\ UNCHANGED <<input, max_compare_together, ideas, round_number, pc,
                   snapshots, ranked>>
    /\ UNCHANGED pickVars

\* a group of one: its member advances, the judge is not asked
AutoAdvance ==
    /\ pc = "for"
    /\ i < Len(ideas)
    /\ Len(ideas_subset) = 1
    /\ Advance(ideas_subset[1])
    /\ UNCHANGED <<input, max_compare_together, ideas, round_number, pc,
                   snapshots, calls, ranked>>
    /\ UNCHANGED pickVars

\* variant: the choice is looked up in the whole active sequence
PickDecidedWholeList ==
    /\ pc = "for"
    /\ i < Len(ideas)
    /\ Len(ideas_subset) # 1
    /\ \E t \in Responses :
          /\ pick_one(ideas, t) # None
          /\ Advance(pick_one(ideas, t))
    /\ calls' = Incr(calls)
    /\ UNCHANGED <<input, max_compare_together, ideas, round_number, pc,
                   snapshots, ranked>>
    /\ UNCHANGED pickVars

\* an attempt of _pick_one_with_retry that returns a choice
PickDecided ==
    /\ pc = "for"
    /\ i < Len(ideas)
    /\ Len(ideas_subset) # 1
    /\ \E t \in Responses :
          /\ pick_one(ideas_subset, t) # None
          /\ Advance(pick_one(ideas_subset, t))
    /\ calls' = Incr(calls)
    /\ UNCHANGED <<input, max_compare_together, ideas, round_number, pc,
                   snapshots, ranked>>
    /\ UNCHANGED pickVars

\* variant: one attempt more than max_retries
PickRetryOneMore ==
    /\ pc = "for"
    /\ i < Len(ideas)
    /\ Len(ideas_subset) # 1
    /\ attempt + 1 <= max_retries
    /\ \E t \in Responses : pick_one(ideas_subset, t) = None
    /\ attempt' = attempt + 1
    /\ calls' = Incr(calls)
    /\ UNCHANGED <<input, max_compare_together, ideas, scores, round_number,
                   winners, i, pc, outcomes, snapshots, failed, ranked>>
    /\ UNCHANGED pickVars

\* an attempt that returns None, with attempts left
PickRetry ==
    /\ pc = "for"
    /\ i < Len(ideas)
    /\ Len(ideas_subset) # 1
    /\ attempt + 1 < max_retries
    /\ \E t \in Responses : pick_one(ideas_subset, t) = None
    /\ attempt' = attempt + 1
    /\ calls' = Incr(calls)
    /\ UNCHANGED <<input, max_compare_together, ideas, scores, round_number,
                   winners, i, pc, outcomes, snapshots, failed, ranked>>
    /\ UNCHANGED pickVars

\* variant: after the last attempt the first idea of the group wins
PickExhaustedFirst ==
    /\ pc = "for"
    /\ i < Len(ideas)
    /\ Len(ideas_subset) # 1
    /\ attempt + 1 >= max_retries
    /\ \E t \in Responses : pick_one(ideas_subset, t) = None
    /\ ScoreWinner(ideas_subset[1])
    /\ outcomes' = Append(outcomes, <<ideas_subset, None>>)
    /\ i' = i + max_compare_together
    /\ attempt' = 0
    /\ calls' = Incr(calls)
    /\ failed' = Incr(failed)
    /\ UNCHANGED <<input, max_compare_together, ideas, round_number, pc,
                   snapshots, ranked>>
    /\ UNCHANGED pickVars

\* the last attempt returns None: _pick_one_with_retry returns None
PickExhausted ==
    /\ pc = "for"
    /\ i < Len(ideas)
    /\ Len(ideas_subset) # 1
    /\ attempt + 1 >= max_retries
    /\ \E t \in Responses : pick_one(ideas_subset, t) = None
    /\ Advance(None)
    /\ calls' = Incr(calls)
    /\ UNCHANGED <<input, max_compare_together, ideas, round_number, pc,
                   snapshots, ranked>>
    /\ UNCHANGED pickVars

\* variant: a round without a winner keeps all its ideas
RoundEndKeepAll ==
    /\ pc = "for"
    /\ i >= Len(ideas)
    /\ ideas' = IF winners = <<>> THEN ideas ELSE winners
    /\ round_number' = Incr(round_number)
    /\ snapshots' = IF Counting THEN Append(snapshots, scores) ELSE snapshots
    /\ pc' = "while"
    /\ UNCHANGED <<input, max_compare_together, scores, winners, i, attempt,
                   outcomes, calls, failed, ranked>>
    /\ UNCHANGED pickVars

\* variant: scores.log is written only after a round with a winner
RoundEndSkipEmpty ==
    /\ pc = "for"
    /\ i >= Len(ideas)
    /\ ideas' = winners
    /\ round_number' = Incr(round_number)
    /\ snapshots' = IF Counting /\ winners # <<>>
                    THEN Append(snapshots, scores) ELSE snapshots
    /\ pc' = "while"
    /\ UNCHANGED <<input, max_compare_together, scores, winners, i, attempt,
                   outcomes, calls, failed, ranked>>
    /\ UNCHANGED pickVars

\* after the for loop: ideas = winners; round_number += 1; scores.log
RoundEnd ==
    /\ pc = "for"
    /\ i >= Len(ideas)
    /\ ideas' = winners
    /\ round_number' = Incr(round_number)
    /\ snapshots' = IF Counting THEN Append(snapshots, scores) ELSE snapshots
    /\ pc' = "while"
    /\ UNCHANGED <<input, max_compare_together, scores, winners, i, attempt,
                   outcomes, calls, failed, ranked>>
    /\ UNCHANGED pickVars

\* the while condition is false: return sorted(scores.items(), ...)
Return ==
    /\ pc = "while"
    /\ Len(ideas) <= 1
    /\ ranked' = SortedItems(scores)
    /\ pc' = "done"
    /\ UNCHANGED <<input, max_compare_together, ideas, scores, round_number,
                   winners, i, attempt, outcomes, snapshots, calls, failed>>
    /\ UNCHANGED pickVars

\* rank(ideas, max_compare_together) up to the while loop
Init ==
    /\ input \in Inputs
    /\ max_compare_together \in GroupSizes
    /\ ideas = input
    /\ scores = InitScores(input)
    /\ round_number = 1
    /\ winners = <<>>
    /\ i = 0
    /\ attempt = 0
    /\ pc = "while"
    /\ outcomes = <<>>
    /\ snapshots = <<>>
    /\ calls = 0
    /\ failed = 0
    /\ ranked = <<>>
    /\ pick_ideas = <<>>
    /\ txt = <<>>
    /\ choice = None

Next ==
    \/ WhileEnter
    \/ AutoAdvance
    \/ PickDecided
    \/ PickRetry
    \/ PickExhausted
    \/ RoundEnd
    \/ Return

Spec == Init /\ [][Next]_vars

NextFair == Next \/ WhileEnterUncounted

\* the interpreter runs the call on: no step of rank waits for anything
FairSpec == Init /\ [][NextFair]_vars /\ WF_vars(NextFair)

(* --------------------------- _pick_one alone --------------------------- *)

\* one call of _pick_one on a group and a response
PickOne ==
    /\ pc = "pick_in"
    /\ choice' = pick_one(pick_ideas, txt)
    /\ pc' = "pick_out"
    /\ UNCHANGED <<pick_ideas, txt>>
    /\ UNCHANGED rankVars

InitPick ==
    /\ pick_ideas \in PickGroups
    /\ txt \in SeqsUpTo(Tokens, MaxTokens)
    /\ choice = None
    /\ pc = "pick_in"
    /\ input = <<>>
    /\ max_compare_together = DefaultMaxCompare
    /\ ideas = <<>>
    /\ scores = <<>>
    /\ round_number = 1
    /\ winners = <<>>
    /\ i = 0
    /\ attempt = 0
    /\ outcomes = <<>>
    /\ snapshots = <<>>
    /\ calls = 0
    /\ failed = 0
    /\ ranked = <<>>

NextPick == PickOne

SpecPick == InitPick /\ [][NextPick]_vars

(* ------------------------------ claims --------------------------------- *)

Distinct(s) == \A j, k \in DOMAIN s : s[j] = s[k] => j = k

\* position of the first occurrence of c in s
FirstIndex(s, c) == CHOOSE j \in DOMAIN s : s[j] = c /\ \A k \in 1..(j - 1) : s[k] # c

\* the ScoreTable as it was when the last round began, at a state after that round
ScoresBeforeRound ==
    IF Len(snapshots) >= 2 THEN snapshots[Len(snapshots) - 1]
    ELSE [j \in DOMAIN scores |-> <<scores[j][1], 0>>]

\* a round has been completed and none is in progress
AfterRound == pc \in {"while", "done"} /\ round_number > 1

\* C1: the returned ranking lists exactly the distinct strings of the input
\* list, each of them in exactly one (candidate, score) pair
C1_ResultCoversInput ==
    pc = "done" =>
        /\ {ranked[j][1] : j \in DOMAIN ranked} = Range(input)
        /\ \A c \in Range(input) :
              Cardinality({j \in DOMAIN ranked : ranked[j][1] = c}) = 1
        /\ Len(ranked) = Cardinality(Range(input))

\* a run of two rounds whose ranking holds an idea that never won
C1_Witness ==
    /\ pc = "done"
    /\ round_number >= 3
    /\ Cardinality(Range(input)) >= 2
    /\ \E j \in DOMAIN ranked : ranked[j][2] = 0

\* C2: at every moment the keys of the ScoreTable are the distinct original
\* candidates, every value is a natural number, and no step adds or removes a
\* key or lowers a value
C2_ScoreTableDomain ==
    /\ [](/\ Keys(scores) = Range(input)
          /\ Len(scores) = Cardinality(Range(input))
          /\ \A j \in DOMAIN scores : scores[j][2] \in Nat)
    /\ [][/\ Keys(scores') = Keys(scores)
          /\ \A k \in Keys(scores) : Get(scores', k) >= Get(scores, k)]_vars

\* in the middle of a round one idea has won twice and another never
C2_Witness ==
    /\ pc = "for"
    /\ \E j, k \in DOMAIN scores : scores[j][2] >= 2 /\ scores[k][2] = 0

\* the cut-off at MaxRounds stops only runs with groups of one, in which every
\* round leaves the active sequence as long as it was
CutOffOnlyGroupsOfOne ==
    (pc = "while" /\ Len(ideas) > 1 /\ round_number > MaxRounds) =>
        /\ max_compare_together = 1
        /\ Len(ideas) = Len(input)

\* C3: every call of rank ends, with at most one active idea
C3_Terminates == <>(pc = "done" /\ Len(ideas) <= 1)

\* C4: the ranking is in order of non-increasing score, and ideas of equal
\* score stand in the order of their first occurrence in the list passed in
C4_SortedStable ==
    pc = "done" =>
        \A j, k \in DOMAIN ranked :
            j < k =>
                /\ ranked[j][2] >= ranked[k][2]
                /\ ranked[j][2] = ranked[k][2] =>
                      FirstIndex(input, ranked[j][1]) < FirstIndex(input, ranked[k][1])

\* the last idea of the input won, and two other ideas tie
C4_Witness ==
    /\ pc = "done"
    /\ Len(ranked) = 3
    /\ ranked[1][1] = input[Len(input)]
    /\ ranked[1][2] > ranked[2][2]
    /\ ranked[2][2] = ranked[3][2]

\* C5: for an empty list and for a list of one idea no round is run, the
\* judge is not asked, nothing is written to scores.log, and the ranking is
\* empty, respectively the one idea with score 0
C5_TrivialInputs ==
    Len(input) <= 1 =>
        /\ pc \in {"while", "done"}
        /\ round_number = 1
        /\ calls = 0
        /\ snapshots = <<>>
        /\ pc = "done" =>
              ranked = IF input = <<>> THEN <<>> ELSE << <<input[1], 0>> >>

\* rank has returned for a list of one idea
C5_Witness == pc = "done" /\ Len(input) = 1 /\ Len(ranked) = 1

\* the groups of the round that produced a winner
WinningGroups == {j \in DOMAIN outcomes : outcomes[j][2] # None}

\* the groups of the round so far, one after the other
RECURSIVE GroupsJoined(_)
GroupsJoined(o) ==
    IF o = <<>> THEN <<>>
    ELSE GroupsJoined(SubSeq(o, 1, Len(o) - 1)) \o o[Len(o)][1]

\* C6: for 2 <= N <= max_group_size distinct ideas and a judge that decides
\* within the retries, rank returns after exactly one round, the chosen idea
\* has score 1 and stands first, and every other idea has score 0
C6_OneGroupOneRound ==
    (/\ pc = "done"
     /\ Distinct(input)
     /\ 2 <= Len(input)
     /\ Len(input) <= max_compare_together
     /\ WinningGroups # {}) =>
        /\ round_number = 2
        /\ Len(snapshots) = 1
        /\ Len(outcomes) = 1
        /\ ideas = <<outcomes[1][2]>>
        /\ \A j \in DOMAIN scores :
              scores[j][2] = IF scores[j][1] = outcomes[1][2] THEN 1 ELSE 0
        /\ ranked[1] = <<outcomes[1][2], 1>>
        /\ \A j \in 2..Len(ranked) : ranked[j][2] = 0

\* three distinct ideas judged together, decided after at least one retry
C6_Witness ==
    /\ pc = "done"
    /\ Distinct(input)
    /\ Len(input) = 3
    /\ max_compare_together = 3
    /\ calls >= 2
    /\ WinningGroups # {}

\* C7: when every group of a round of two or more ideas ends without a
\* decision, the round has no winner and changes no score, the next active
\* sequence is empty, the loop ends, and the ranking lists every original
\* idea with the score it had before that round
C7_FullOracleFailure ==
    /\ (/\ pc = "for"
        /\ i >= Len(ideas)
        /\ WinningGroups = {}) =>
           /\ winners = <<>>
           /\ scores = IF snapshots = <<>>
                       THEN [j \in DOMAIN scores |-> <<scores[j][1], 0>>]
                       ELSE snapshots[Len(snapshots)]
    /\ (AfterRound /\ WinningGroups = {}) =>
           /\ outcomes # <<>>
           /\ ideas = <<>>
           /\ scores = ScoresBeforeRound
           /\ pc = "done" =>
                 /\ {ranked[j][1] : j \in DOMAIN ranked} = Range(input)
                 /\ \A j \in DOMAIN ranked :
                       ranked[j][2] = Get(ScoresBeforeRound, ranked[j][1])

\* the second round failed as a whole after a first round with winners
C7_Witness ==
    /\ pc = "done"
    /\ round_number = 3
    /\ WinningGroups = {}
    /\ outcomes # <<>>
    /\ \E j \in DOMAIN ranked : ranked[j][2] = 1

\* the digit strings that write the number n in a modelled response
Written(n) == {Dec(n), <<0>> \o Dec(n)}

\* C8: _pick_one returns the idea at position n (counted from 1) exactly
\* when the first CHOICE(n) marker of the response has 1 <= n <= k, and
\* returns no-decision otherwise; what it returns is an idea of the group
C8_PickOneParse ==
    pc = "pick_out" =>
        LET k == Len(pick_ideas)
            first == {p \in DOMAIN txt :
                         txt[p].marker /\ \A q \in 1..(p - 1) : ~txt[q].marker}
            valid == {n \in 1..k : \E p \in first : txt[p].digits \in Written(n)}
        IN  /\ \A n \in valid : choice = pick_ideas[n]
            /\ valid = {} => choice = None
            /\ choice # None => choice \in Range(pick_ideas)
            /\ (txt = <<Marker(<<9>>)>> /\ k = 3) => choice = None

\* text, then CHOICE(3), for a group of four: the third idea is returned
C8_Witness ==
    /\ pc = "pick_out"
    /\ Len(pick_ideas) = 4
    /\ Distinct(SubSeq(pick_ideas, 1, 3))
    /\ txt = <<Text, Marker(<<3>>)>>
    /\ choice = pick_ideas[3]

\* C9: the groups of a round are consecutive slices of the shuffled
\* sequence that cover each position once; all but the last have exactly
\* max_group_size ideas and the last has between 1 and max_group_size
C9_GroupPartition ==
    pc = "for" =>
        /\ GroupsJoined(outcomes) = SubSeq(ideas, 1, Min(i, Len(ideas)))
        /\ \A j \in DOMAIN outcomes :
              /\ Len(outcomes[j][1]) >= 1
              /\ Len(outcomes[j][1]) <= max_compare_together
              /\ (j < Len(outcomes) \/ i < Len(ideas)) =>
                    Len(outcomes[j][1]) = max_compare_together
        /\ i < Len(ideas) =>
              /\ Len(ideas_subset) >= 1
              /\ GroupsJoined(outcomes) \o ideas_subset
                    = SubSeq(ideas, 1, Min(i + max_compare_together, Len(ideas)))
        /\ (Len(ideas) = 10 /\ max_compare_together = 4 /\ i >= Len(ideas)) =>
              [j \in DOMAIN outcomes |-> Len(outcomes[j][1])] = <<4, 4, 2>>

\* ten ideas in groups of four: all three groups have been judged
C9_Witness ==
    /\ pc = "for"
    /\ Len(ideas) = 10
    /\ max_compare_together = 4
    /\ i >= Len(ideas)
    /\ Len(outcomes) = 3

\* C10: over a round the scores grow in total by the number of groups that
\* produced a winner, which is the length of the next active sequence; a
\* group with a winner adds exactly 1 to exactly one entry of the ScoreTable
C10_RoundIncrements ==
    /\ [](AfterRound =>
             /\ Total(scores) - Total(ScoresBeforeRound) = Cardinality(WinningGroups)
             /\ Len(ideas) = Cardinality(WinningGroups))
    /\ [][(Len(outcomes') = Len(outcomes) + 1 /\ outcomes'[Len(outcomes')][2] # None) =>
             \E j \in DOMAIN scores :
                 /\ scores'[j] = <<scores[j][1], scores[j][2] + 1>>
                 /\ \A k \in DOMAIN scores \ {j} : scores'[k] = scores[k]
                 /\ DOMAIN scores' = DOMAIN scores]_vars

\* a round of two groups: the first without a winner, the second with one
C10_Witness ==
    /\ AfterRound
    /\ Len(outcomes) = 2
    /\ outcomes[1][2] = None
    /\ outcomes[2][2] # None
    /\ Len(ideas) = 1

\* a step that puts a request to the judge
JudgeAsked == calls' = calls + 1

\* a step that ends the work on the current group
GroupDone ==
    /\ Len(outcomes') = Len(outcomes) + 1
    /\ SubSeq(outcomes', 1, Len(outcomes)) = outcomes

\* C11: a group of two or more ideas gets at least 1 and at most max_retries
\* attempts; an attempt without a decision is followed by one on the same
\* group, a decision ends the attempts, and the group's winner is what that
\* deciding attempt returned
C11_BoundedRetry ==
    /\ [](pc = "for" => attempt \in 0..(max_retries - 1))
    /\ [][/\ JudgeAsked =>
               /\ Len(ideas_subset) >= 2
               /\ attempt + 1 <= max_retries
               /\ ideas' = ideas
               /\ \/ /\ attempt' = attempt + 1
                     /\ attempt' < max_retries
                     /\ UNCHANGED <<i, outcomes, winners, scores>>
                  \/ /\ GroupDone
                     /\ attempt' = 0
                     /\ i' = i + max_compare_together
                     /\ outcomes'[Len(outcomes')][1] = ideas_subset
                     /\ LET best == outcomes'[Len(outcomes')][2] IN
                        IF best = None
                        THEN attempt + 1 = max_retries
                        ELSE /\ \E t \in Responses : pick_one(ideas_subset, t) = best
                             /\ winners' = Append(winners, best)
          /\ (GroupDone /\ Len(ideas_subset) >= 2) => JudgeAsked
          /\ attempt' > attempt => JudgeAsked]_vars

\* the only group of the round was decided by the fifth attempt
C11_Witness ==
    /\ pc = "for"
    /\ Len(outcomes) = 1
    /\ Len(outcomes[1][1]) >= 2
    /\ outcomes[1][2] # None
    /\ calls = max_retries
    /\ round_number = 1

\* C12: the judge is asked only about groups of 2 to max_group_size ideas;
\* the idea of a group of one advances unasked and gains one point
C12_NoSingletonCall ==
    [][/\ JudgeAsked =>
            /\ Len(ideas_subset) >= 2
            /\ Len(ideas_subset) <= max_compare_together
       /\ (GroupDone /\ Len(ideas_subset) = 1) =>
            /\ calls' = calls
            /\ outcomes'[Len(outcomes')] = <<ideas_subset, ideas_subset[1]>>
            /\ winners' = Append(winners, ideas_subset[1])
            /\ Get(scores', ideas_subset[1]) = Get(scores, ideas_subset[1]) + 1]_vars

\* a round with a judged group followed by a group of one
C12_Witness ==
    /\ pc = "for"
    /\ Len(outcomes) = 2
    /\ Len(outcomes[1][1]) = 2
    /\ Len(outcomes[2][1]) = 1
    /\ outcomes[2][2] = outcomes[2][1][1]
    /\ calls >= 1

\* the ideas of the groups of the round that are not their group's winner
Eliminated ==
    {c \in Range(input) :
        \E j \in DOMAIN outcomes : c \in Range(outcomes[j][1]) /\ outcomes[j][2] # c}

\* C13: a group that ends without a decision puts nothing into the next
\* active sequence and raises no score; among distinct ideas, one that is
\* eliminated (by such a group or by losing) is never active again and keeps
\* its score
C13_EliminatedStayOut ==
    [][/\ (GroupDone /\ outcomes'[Len(outcomes')][2] = None) =>
             UNCHANGED <<winners, scores>>
       /\ Distinct(input) =>
             /\ \A c \in Eliminated :
                   /\ c \notin Range(winners')
                   /\ c \notin Range(ideas') \/ ideas' = ideas
                   /\ Get(scores', c) = Get(scores, c)
             /\ \A c \in Range(input) \ Range(ideas) :
                   /\ c \notin Range(ideas')
                   /\ c \notin Range(winners')
                   /\ Get(scores', c) = Get(scores, c)]_vars

\* three distinct ideas: the group of two ended undecided, the third idea
\* advanced and the call has returned
C13_Witness ==
    /\ pc = "done"
    /\ Distinct(input)
    /\ Len(input) = 3
    /\ Len(outcomes) = 2
    /\ outcomes[1][2] = None
    /\ outcomes[2][2] # None
    /\ ideas = <<outcomes[2][2]>>

\* the winners named by the outcomes, in the order of their groups
RECURSIVE BestsOf(_)
BestsOf(o) ==
    IF o = <<>> THEN <<>>
    ELSE IF o[Len(o)][2] = None THEN BestsOf(SubSeq(o, 1, Len(o) - 1))
    ELSE Append(BestsOf(SubSeq(o, 1, Len(o) - 1)), o[Len(o)][2])

\* C14: the next active sequence is the sequence of the round's group
\* winners, at most one per group and each an idea of its group; it is a
\* sub-multiset of the current active sequence, and only original ideas are
\* ever active
C14_WinnersBecomeActive ==
    /\ [](/\ Range(ideas) \subseteq Range(input)
          /\ pc = "for" =>
                /\ winners = BestsOf(outcomes)
                /\ \A j \in DOMAIN outcomes :
                      outcomes[j][2] # None => outcomes[j][2] \in Range(outcomes[j][1])
                /\ \A c \in Range(input) : Count(winners, c) <= Count(ideas, c))
    /\ [][(pc = "for" /\ pc' = "while") =>
             /\ ideas' = BestsOf(outcomes)
             /\ Len(ideas') <= Len(outcomes)
             /\ \A c \in Range(input) : Count(ideas', c) <= Count(ideas, c)]_vars

\* three distinct ideas in groups of two: both groups gave a winner
C14_Witness ==
    /\ pc = "while"
    /\ round_number = 2
    /\ Distinct(input)
    /\ Len(input) = 3
    /\ Len(ideas) = 2
    /\ calls >= 1

\* C15: the KeyError branch is never taken: every idea that can win is a key
\* of the ScoreTable, and every winner is both scored and carried on
C15_NoKeyError ==
    /\ [](pc = "for" => \A c \in Range(ideas) : HasKey(scores, c))
    /\ [][(GroupDone /\ outcomes'[Len(outcomes')][2] # None) =>
             LET best == outcomes'[Len(outcomes')][2] IN
             /\ HasKey(scores, best)
             /\ Get(scores', best) = Get(scores, best) + 1
             /\ winners' = Append(winners, best)]_vars

\* a round with one winner chosen by the judge and one advanced unasked
C15_Witness ==
    /\ pc = "for"
    /\ Len(winners) = 2
    /\ Len(outcomes) = 2
    /\ calls >= 1
    /\ Len(outcomes[2][1]) = 1

\* C16: scores.log gets exactly one line per completed round, written after
\* the round's last group and equal to the ScoreTable with all increments of
\* the round; the lines are as many as the rounds run and are never changed
C16_SnapshotPerRound ==
    /\ [](/\ Len(snapshots) = round_number - 1
          /\ (pc \in {"while", "done"} /\ snapshots # <<>>) =>
                snapshots[Len(snapshots)] = scores)
    /\ [][/\ snapshots' # snapshots =>
                /\ snapshots' = Append(snapshots, scores)
                /\ pc = "for"
                /\ i >= Len(ideas)
                /\ Len(outcomes) >= 1
                /\ pc' = "while"
                /\ scores' = scores
          /\ (pc = "for" /\ pc' = "while") => Len(snapshots') = Len(snapshots) + 1
          /\ SubSeq(snapshots', 1, Len(snapshots)) = snapshots]_vars

\* two rounds were run and the two lines of scores.log differ
C16_Witness ==
    /\ pc = "done"
    /\ Len(snapshots) = 2
    /\ snapshots[1] # snapshots[2]
    /\ failed = 0

\* n / m rounded up
CeilDiv(n, m) == (n + m - 1) \div m

RECURSIVE Pow(_, _)
Pow(m, r) == IF r = 0 THEN 1 ELSE m * Pow(m, r - 1)

\* the least r with m^r >= n, for m >= 2 and n >= 1
LeastExp(m, n) == CHOOSE r \in 0..n : Pow(m, r) >= n /\ \A q \in 0..(r - 1) : Pow(m, q) < n

\* a step that completes a round
RoundCompleted == pc = "for" /\ pc' = "while"

\* C17: with max_group_size m >= 2 and no group left undecided, a round of n
\* active ideas leaves exactly ceil(n/m), and a call on N >= 2 ideas runs
\* exactly the least r with m^r >= N rounds
C17_RoundCount ==
    /\ [][(RoundCompleted /\ max_compare_together >= 2 /\ failed = 0) =>
             Len(ideas') = CeilDiv(Len(ideas), max_compare_together)]_vars
    /\ []((/\ pc = "done"
           /\ max_compare_together >= 2
           /\ failed = 0
           /\ Len(input) >= 2) =>
              round_number - 1 = LeastExp(max_compare_together, Len(input)))

\* ten ideas in groups of two, every group decided: four rounds
C17_Witness ==
    /\ pc = "done"
    /\ failed = 0
    /\ Len(input) = 10
    /\ max_compare_together = 2
    /\ round_number = 5

\* C18: among distinct ideas, when round k is about to begin every active
\* idea has score k-1 and every other idea has less; so if one idea is left
\* at the end it has the strictly greatest score and stands first
C18_ScoreIsRoundsWon ==
    Distinct(input) =>
        /\ pc \in {"while", "done"} =>
              \A c \in Range(input) :
                  IF c \in Range(ideas)
                  THEN Get(scores, c) = round_number - 1
                  ELSE Get(scores, c) < round_number - 1
        /\ (pc = "done" /\ Len(ideas) = 1) =>
              /\ ranked[1][1] = ideas[1]
              /\ \A j \in 2..Len(ranked) : ranked[j][2] < ranked[1][2]

\* three distinct ideas, two rounds, one idea left
C18_Witness ==
    /\ pc = "done"
    /\ Distinct(input)
    /\ Len(input) = 3
    /\ round_number = 3
    /\ Len(ideas) = 1
    /\ ranked[1][2] = 2

\* C19: with max_group_size m >= 2 a round of n >= 2 active ideas leaves at
\* most ceil(n/m) < n, whatever the judge answers; the active sequence gets
\* shorter every round and the rounds are at most as many as the input ideas
C19_ActiveShrinks ==
    /\ [][(RoundCompleted /\ max_compare_together >= 2) =>
             /\ Len(ideas) >= 2
             /\ Len(ideas') <= CeilDiv(Len(ideas), max_compare_together)
             /\ CeilDiv(Len(ideas), max_compare_together) < Len(ideas)
             /\ Len(ideas') < Len(ideas)]_vars
    /\ [](max_compare_together >= 2 => round_number - 1 <= Len(input))

\* ten ideas in groups of four: two were left after a round with a group
\* that ended undecided
C19_Witness ==
    /\ pc = "while"
    /\ Len(input) = 10
    /\ max_compare_together = 4
    /\ round_number = 2
    /\ Len(ideas) = 2
    /\ failed = 1

====
